---- MODULE Spec2Model ----
(***************************************************************************)
(* A state-machine model of build.rs, the cargo build script of rusty_v8.  *)
(* One process run is the sequential execution of main(); the file system  *)
(* scratch area and the starting environment outlive a run, so that a      *)
(* second run of the script against the same scratch area can be observed. *)
(***************************************************************************)
EXTENDS Integers, Sequences, FiniteSets, TLC

\* Number of consecutive process runs against the same scratch directory.
MaxRuns == 2

-----------------------------------------------------------------------------
(* Option<T>: None is the empty tuple, Some(v) the one-element tuple.      *)

None == <<>>

Some(v) == <<v>>

is_some(o) == o # None

unwrap(o) == o[1]

-----------------------------------------------------------------------------
(* std::path on paths represented as sequences of components; an absolute  *)
(* path starts with the root component "/".                                *)

\* Path::join: an absolute argument replaces the receiver.
join(p, q) == IF q # <<>> /\ q[1] = "/" THEN q ELSE p \o q

\* Path::parent: None for the root and for the empty path.
parent(p) == IF p = <<>> \/ p = <<"/">> THEN None ELSE Some(SubSeq(p, 1, Len(p) - 1))

\* Path::file_name: the last component when it is a normal one.
file_name(p) ==
  IF p = <<>> \/ p[Len(p)] \in {"/", ".."} THEN None ELSE Some(p[Len(p)])

RECURSIVE rfind_dot(_, _)
\* index of the last '.' in s[1..i], 0 if there is none
rfind_dot(s, i) ==
  IF i = 0 THEN 0
  ELSE IF SubSeq(s, i, i) = "." THEN i ELSE rfind_dot(s, i - 1)

\* Path::file_stem: the file name without its final extension; a name
\* without an embedded '.' (or with only a leading one) is its own stem.
file_stem(p) ==
  IF ~is_some(file_name(p)) THEN None
  ELSE LET n == unwrap(file_name(p))
           d == rfind_dot(n, Len(n))
       IN  IF d <= 1 THEN Some(n) ELSE Some(SubSeq(n, 1, d - 1))

\* Path::with_extension: the stem of the file name followed by '.' and ext.
with_extension(p, ext) ==
  IF ~is_some(file_stem(p)) THEN p
  ELSE SubSeq(p, 1, Len(p) - 1) \o <<unwrap(file_stem(p)) \o "." \o ext>>

RECURSIVE display(_)
\* Path::display / conversion of a path to the string handed to the OS.
display(p) ==
  IF p = <<>> THEN ""
  ELSE IF Len(p) = 1 THEN p[1]
  ELSE IF p[1] = "/" THEN "/" \o display(Tail(p))
  ELSE p[1] \o "/" \o display(Tail(p))

\* format!("{:?}", path): the displayed path between double quotes.
debug_fmt(p) == "\"" \o display(p) \o "\""

\* str::starts_with
starts_with(s, prefix) ==
  Len(s) >= Len(prefix) /\ SubSeq(s, 1, Len(prefix)) = prefix

\* mutant: only the space character separates tokens
is_whitespace_space_only(c) == c = " "

\* char::is_whitespace on the characters that occur in the inputs
is_whitespace(c) == c \in {" ", "\t", "\n"}

RECURSIVE split_from(_, _, _)
\* tokens of s[i..], cur being the token under construction
split_from(s, i, cur) ==
  IF i > Len(s) THEN (IF cur = "" THEN <<>> ELSE <<cur>>)
  ELSE LET c == SubSeq(s, i, i)
       IN  IF is_whitespace(c)
           THEN (IF cur = "" THEN <<>> ELSE <<cur>>) \o split_from(s, i + 1, "")
           ELSE split_from(s, i + 1, cur \o c)

\* str::split_whitespace: the maximal runs of non-whitespace, in order.
split_whitespace(s) == split_from(s, 1, "")

-----------------------------------------------------------------------------
(* The environment the script is started in.                               *)

TargetOs == {"windows", "linux", "macos"}

\* env::current_dir()
current_dir == <<"/", "proj">>

\* OUT_DIR as cargo sets it for a build script.
OUT_DIR == <<"/", "proj", "target", "debug", "build", "rusty_v8-d9e5", "out">>

\* values of CARGO the classifier is tried on (None: not set)
CargoValues ==
  { None,
    Some(<<"/", "usr", "bin", "cargo">>),
    Some(<<"/", "usr", "bin", "rls">>),
    Some(<<"/", "usr", "bin", "rls.exe">>),
    Some(<<"/", "rls", "cargo">>),
    Some(<<"/", "usr", "bin", "rl.s">>) }

\* values of GN_ARGS (None: not set, or not valid unicode)
GnArgsValues ==
  { None,
    Some(""),
    Some("is_debug=true"),
    Some(" a=1\tcc_wrapper=\"x\"  is_debug=false ") }

\* a path an operator may have stored in GN, NINJA, CLANG_BASE_PATH, SCCACHE
UserGn == "/opt/bin/gn"

UserNinja == "/opt/bin/ninja"

UserClangBase == <<"/", "opt", "llvm">>

UserSccache == <<"/", "opt", "bin", "sccache">>

PathSccache == <<"/", "usr", "bin", "sccache">>

-----------------------------------------------------------------------------
(* State.                                                                  *)

VARIABLES
  target_os,    \* the cfg!(target_os) the script was compiled for
  search_path,  \* build tools that which() resolves on the search path
  env0,         \* environment variables a process run starts with
  env,          \* environment variables of the running process
  fs,           \* build-tool files present in the scratch area
  run,          \* number of the current process run
  prev_acquired,\* the Build-Tool Acquirer completed in the previous run
  pc,           \* position of the running process
  exit_status,  \* [code, at]: exit code and the function that terminated
  loc,          \* values read and locals computed so far in this run
  gn_args,      \* the Vec<String> gn_args of build_v8
  launched,     \* external actions attempted in this run, in order
  stdout        \* lines printed to standard output in this run, in order

vars == <<target_os, search_path, env0, env, fs, run, prev_acquired, pc,
          exit_status, loc, gn_args, launched, stdout>>

Running == [code |-> -1, at |-> ""]

\* exit code of a Rust panic (expect, unwrap, assert!)
PanicCode == 101

\* locals of a fresh process; the three raw values read by main are
\* temporaries of the classification, dropped by the step after it
InitLoc ==
  [ DENO_TRYBUILD |-> None, RUSTDOCFLAGS |-> None, CARGO |-> None,
    is_trybuild |-> FALSE, is_cargo_doc |-> FALSE, is_rls |-> FALSE,
    libcxx_src_is_dir |-> FALSE,
    need_download |-> FALSE, helper |-> "not_run", acquired |-> FALSE,
    is_debug |-> FALSE,
    CLANG_BASE_PATH |-> None, probe |-> "not_run", probe_utf8 |-> TRUE,
    located |-> "pending", system_clang |-> None,
    fetch |-> "not_run", clang_dir_exists |-> FALSE,
    SCCACHE |-> None, sccache_on_path |-> FALSE, GN_ARGS |-> None,
    gen |-> "not_run", build |-> "not_run" ]

-----------------------------------------------------------------------------
(* main: the Environment Classifier.                                       *)

\* is_rls of main: the file stem of CARGO starts with "rls"
is_rls_of(cargo) ==
  IF is_some(cargo) /\ is_some(file_stem(unwrap(cargo)))
  THEN starts_with(unwrap(file_stem(unwrap(cargo))), "rls")
  ELSE FALSE

\* mutant: the language-server signal is not consulted
should_build_no_rls(is_trybuild, is_cargo_doc, is_rls) ==
  ~(is_trybuild \/ is_cargo_doc)

\* mutant: the trybuild signal is not consulted
should_build_no_trybuild(is_trybuild, is_cargo_doc, is_rls) ==
  ~(is_cargo_doc \/ is_rls)

\* the condition under which main calls build_v8
should_build(is_trybuild, is_cargo_doc, is_rls) ==
  ~(is_trybuild \/ is_cargo_doc \/ is_rls)

\* the condition under which main calls print_link_flags
should_link(is_cargo_doc, is_rls) == ~(is_cargo_doc \/ is_rls)

Exit(code, at) ==
  /\ pc' = "exited"
  /\ exit_status' = [code |-> code, at |-> at]

Main ==
  /\ pc = "main"
  /\ \E trybuild \in {None, Some(""), Some("1")},
        rustdoc \in {None, Some("--cfg docsrs")},
        cargo \in CargoValues :
       /\ loc' = [loc EXCEPT !.DENO_TRYBUILD = trybuild,
                             !.RUSTDOCFLAGS = rustdoc,
                             !.CARGO = cargo,
                             !.is_trybuild = is_some(trybuild),
                             !.is_cargo_doc = is_some(rustdoc),
                             !.is_rls = is_rls_of(cargo)]
       /\ pc' = IF should_build(is_some(trybuild), is_some(rustdoc),
                                is_rls_of(cargo))
                THEN "build_v8" ELSE "main_link"
  /\ UNCHANGED <<target_os, search_path, env0, env, fs, run, prev_acquired,
                 exit_status, gn_args, launched, stdout>>

-----------------------------------------------------------------------------
(* build_v8: environment set-up and the vendored source check.             *)

\* mutant: the vendored source check never fails
source_missing_never(is_dir) == FALSE

\* !libcxx_src.is_dir(): the vendored source tree is absent
source_missing(is_dir) == ~is_dir

BuildV8Start ==
  /\ pc = "build_v8"
  /\ env' = [env EXCEPT !.DEPOT_TOOLS_WIN_TOOLCHAIN = Some("0"),
                        !.PYTHONDONTWRITEBYTECODE = Some("1")]
  /\ \E is_dir \in BOOLEAN :
       /\ loc' = [loc EXCEPT !.DENO_TRYBUILD = None, !.RUSTDOCFLAGS = None,
                             !.CARGO = None, !.libcxx_src_is_dir = is_dir]
       /\ IF source_missing(is_dir)
          THEN Exit(1, "build_v8")
          ELSE pc' = "acquire" /\ UNCHANGED exit_status
  /\ UNCHANGED <<target_os, search_path, env0, fs, run, prev_acquired,
                 gn_args, launched, stdout>>

-----------------------------------------------------------------------------
(* The Build-Tool Acquirer.                                                *)

\* platform(): the scratch subdirectory of the compiled-for platform
platform(os) ==
  CASE os = "windows" -> "win"
    [] os = "linux" -> "linux64"
    [] os = "macos" -> "mac"

\* three parents up from OUT_DIR: target/debug or target/release
target_dir ==
  unwrap(parent(unwrap(parent(unwrap(parent(join(current_dir, OUT_DIR)))))))

download_dir == join(target_dir, <<"gn_ninja_binaries">>)

\* the directory d the two tools are expected in
tools_dir(os) == join(join(download_dir, <<"gn_ninja_binaries">>), <<platform(os)>>)

\* mutant: the generator has no .exe extension on Windows
gn_path_no_exe(os) == join(tools_dir(os), <<"gn">>)

\* the expected path of the build-graph generator
gn_path(os) ==
  IF os = "windows"
  THEN with_extension(join(tools_dir(os), <<"gn">>), "exe")
  ELSE join(tools_dir(os), <<"gn">>)

\* the expected path of the build executor
ninja_path(os) ==
  IF os = "windows"
  THEN with_extension(join(tools_dir(os), <<"ninja">>), "exe")
  ELSE join(tools_dir(os), <<"ninja">>)

ToolFiles(os) == {gn_path(os), ninja_path(os)}

\* which(name).is_ok()
which_ok(name) == name \in search_path

need_gn_ninja_download ==
  ~((which_ok("ninja") \/ is_some(env.NINJA)) /\ is_some(env.GN))

\* mutant: the helper is run without looking at the scratch area
helper_needed_always(files, os) == TRUE

\* the condition under which download_gn_ninja_binaries runs the helper
helper_needed(files, os) == ~(gn_path(os) \in files) \/ ~(ninja_path(os) \in files)

\* mutant: the two tools are not re-verified
tools_present_unchecked(files, os) == TRUE

\* the two assert!(..exists()) after the helper
tools_present(files, os) == gn_path(os) \in files /\ ninja_path(os) \in files

\* mutant: the exit status of the download helper is not asserted
helper_success_unchecked(outcome) == TRUE

\* assert!(status.success()) after the download helper
helper_success(outcome) == outcome = "exit_zero"

HelperCall ==
  [program |-> "python",
   args |-> <<"./tools/gn_ninja_binaries.py", "--dir", display(download_dir)>>]

\* need_gn_ninja_download() is false: the acquirer is not entered
AcquireSkip ==
  /\ pc = "acquire"
  /\ ~need_gn_ninja_download
  /\ loc' = [loc EXCEPT !.need_download = FALSE, !.acquired = TRUE]
  /\ pc' = "is_debug"
  /\ UNCHANGED <<target_os, search_path, env0, env, fs, run, prev_acquired,
                 exit_status, gn_args, launched, stdout>>

\* download_gn_ninja_binaries() with both tools already in the scratch area
AcquirePresent ==
  /\ pc = "acquire"
  /\ need_gn_ninja_download
  /\ ~helper_needed(fs, target_os)
  /\ IF tools_present(fs, target_os)
     THEN /\ env' = [env EXCEPT
                       !.GN = Some(display(gn_path(target_os))),
                       !.NINJA = Some(display(ninja_path(target_os)))]
          /\ loc' = [loc EXCEPT !.need_download = TRUE, !.acquired = TRUE]
          /\ pc' = "is_debug"
          /\ UNCHANGED exit_status
     ELSE /\ loc' = [loc EXCEPT !.need_download = TRUE]
          /\ Exit(PanicCode, "download_gn_ninja_binaries")
          /\ UNCHANGED env
  /\ UNCHANGED <<target_os, search_path, env0, fs, run, prev_acquired,
                 gn_args, launched, stdout>>

\* download_gn_ninja_binaries() running the download helper
AcquireDownload ==
  /\ pc = "acquire"
  /\ need_gn_ninja_download
  /\ helper_needed(fs, target_os)
  /\ launched' = Append(launched, HelperCall)
  /\ \E outcome \in {"launch_error", "exit_nonzero", "exit_zero"},
        files \in SUBSET ToolFiles(target_os) :
       /\ outcome = "launch_error" => files = fs
       /\ fs' = files
       /\ IF helper_success(outcome) /\ tools_present(files, target_os)
          THEN /\ env' = [env EXCEPT
                            !.GN = Some(display(gn_path(target_os))),
                            !.NINJA = Some(display(ninja_path(target_os)))]
               /\ loc' = [loc EXCEPT !.need_download = TRUE,
                                     !.helper = outcome,
                                     !.acquired = TRUE]
               /\ pc' = "is_debug"
               /\ UNCHANGED exit_status
          ELSE /\ loc' = [loc EXCEPT !.need_download = TRUE,
                                     !.helper = outcome]
               /\ Exit(PanicCode, "download_gn_ninja_binaries")
               /\ UNCHANGED env
  /\ UNCHANGED <<target_os, search_path, env0, run, prev_acquired,
                 gn_args, stdout>>

-----------------------------------------------------------------------------
(* The Build Configuration Assembler: debug/release entry.                 *)

\* mutant: the debug profile gives a debug build on every platform
is_debug_entry_any_os(debug, os) ==
  IF debug THEN "is_debug=true" ELSE "is_debug=false"

\* the first entry of gn_args; cargo_gn::is_debug() is the requested profile
is_debug_entry(debug, os) ==
  IF debug /\ os # "windows" THEN "is_debug=true" ELSE "is_debug=false"

\* mutant: the BuildArgs are started without running the acquirer first
IsDebugBeforeAcquire ==
  /\ pc \in {"acquire", "is_debug"}
  /\ \E debug \in BOOLEAN :
       /\ loc' = [loc EXCEPT !.is_debug = debug]
       /\ gn_args' = <<is_debug_entry(debug, target_os)>>
  /\ pc' = "find_clang"
  /\ UNCHANGED <<target_os, search_path, env0, env, fs, run, prev_acquired,
                 exit_status, launched, stdout>>

IsDebug ==
  /\ pc = "is_debug"
  /\ \E debug \in BOOLEAN :
       /\ loc' = [loc EXCEPT !.is_debug = debug]
       /\ gn_args' = <<is_debug_entry(debug, target_os)>>
  /\ pc' = "find_clang"
  /\ UNCHANGED <<target_os, search_path, env0, env, fs, run, prev_acquired,
                 exit_status, launched, stdout>>

-----------------------------------------------------------------------------
(* The Toolchain Locator.                                                  *)

ProbeOutcomes == {"missing", "launch_error", "exit_nonzero", "exit_zero"}

\* Command::output() is Ok: the process was launched, whatever its status
probe_launched(outcome) == outcome \in {"exit_nonzero", "exit_zero"}

\* mutant: every probe outcome counts as a compatible compiler
is_compatible_clang_version_always(outcome) == TRUE

\* is_compatible_clang_version: true as soon as output() is Ok
is_compatible_clang_version(outcome) == probe_launched(outcome)

\* String::from_utf8(o.stdout).unwrap() panics on output that is not UTF-8
probe_panics(outcome, utf8) == probe_launched(outcome) /\ ~utf8

ProbeCall(base) ==
  [program |-> display(join(join(base, <<"bin">>), <<"clang">>)),
   args |-> <<"--version">>]

\* find_compatible_system_clang() with CLANG_BASE_PATH unset or not unicode
LocateUnset ==
  /\ pc = "find_clang"
  /\ loc' = [loc EXCEPT !.CLANG_BASE_PATH = None,
                        !.located = "none", !.system_clang = None]
  /\ stdout' = Append(stdout, "using Chromiums clang")
  /\ pc' = "clang_branch"
  /\ UNCHANGED <<target_os, search_path, env0, env, fs, run, prev_acquired,
                 exit_status, gn_args, launched>>

\* find_compatible_system_clang() probing CLANG_BASE_PATH/bin/clang
LocateProbe ==
  /\ pc = "find_clang"
  /\ launched' = Append(launched, ProbeCall(UserClangBase))
  /\ \E outcome \in ProbeOutcomes, utf8 \in BOOLEAN :
       /\ ~probe_launched(outcome) => utf8
       /\ IF probe_panics(outcome, utf8)
          THEN /\ loc' = [loc EXCEPT !.CLANG_BASE_PATH = Some(UserClangBase),
                                     !.probe = outcome, !.probe_utf8 = utf8]
               /\ Exit(PanicCode, "is_compatible_clang_version")
               /\ UNCHANGED stdout
          ELSE IF is_compatible_clang_version(outcome)
          THEN /\ loc' = [loc EXCEPT !.CLANG_BASE_PATH = Some(UserClangBase),
                                     !.probe = outcome, !.probe_utf8 = utf8,
                                     !.located = "some",
                                     !.system_clang = Some(UserClangBase)]
               /\ pc' = "clang_branch"
               /\ UNCHANGED <<exit_status, stdout>>
          ELSE /\ loc' = [loc EXCEPT !.CLANG_BASE_PATH = Some(UserClangBase),
                                     !.probe = outcome, !.probe_utf8 = utf8,
                                     !.located = "none",
                                     !.system_clang = None]
               /\ stdout' = Append(stdout, "using Chromiums clang")
               /\ pc' = "clang_branch"
               /\ UNCHANGED exit_status
  /\ UNCHANGED <<target_os, search_path, env0, env, fs, run, prev_acquired,
                 gn_args>>

\* mutant: the two compatibility flags are not pushed
system_clang_entries_no_flags(base) ==
  << "clang_base_path=" \o debug_fmt(base) >>

\* the entries build_v8 pushes for a system compiler found at base
system_clang_entries(base) ==
  << "clang_base_path=" \o debug_fmt(base),
     "treat_warnings_as_errors=false",
     "clang_use_chrome_plugins=false" >>

\* build_v8, the Some(clang_base_path) branch
UseSystemClang ==
  /\ pc = "clang_branch"
  /\ is_some(loc.system_clang)
  /\ stdout' = Append(stdout,
                 "clang_base_path " \o display(unwrap(loc.system_clang)))
  /\ gn_args' = gn_args \o system_clang_entries(unwrap(loc.system_clang))
  /\ pc' = "sccache"
  /\ UNCHANGED <<target_os, search_path, env0, env, fs, run, prev_acquired,
                 exit_status, loc, launched>>

-----------------------------------------------------------------------------
(* The Remote Toolchain Acquirer.                                          *)

\* the private compiler directory, next to the scratch area
clang_base_path == join(target_dir, <<"clang">>)

FetchCall ==
  [program |-> "python",
   args |-> <<"./tools/clang/scripts/update.py", "--output-dir",
              display(clang_base_path)>>]

\* mutant: the exit status of the fetch script is not asserted
fetch_success_unchecked(outcome) == TRUE

\* assert!(status.success()) after the fetch script
fetch_success(outcome) == outcome = "exit_zero"

\* build_v8, the else branch: clang_download()
ClangDownload ==
  /\ pc = "clang_branch"
  /\ ~is_some(loc.system_clang)
  /\ stdout' = Append(stdout, "clang_base_path " \o display(clang_base_path))
  /\ launched' = Append(launched, FetchCall)
  /\ \E outcome \in {"launch_error", "exit_nonzero", "exit_zero"},
        exists \in BOOLEAN :
       /\ loc' = [loc EXCEPT !.fetch = outcome, !.clang_dir_exists = exists]
       /\ IF fetch_success(outcome) /\ exists
          THEN /\ gn_args' = Append(gn_args,
                     "clang_base_path=" \o debug_fmt(clang_base_path))
               /\ pc' = "sccache"
               /\ UNCHANGED exit_status
          ELSE /\ Exit(PanicCode, "clang_download")
               /\ UNCHANGED gn_args
  /\ UNCHANGED <<target_os, search_path, env0, env, fs, run, prev_acquired>>

-----------------------------------------------------------------------------
(* The Compiler Cache Integrator.                                          *)

\* mutant: the warnings flag is pushed on every platform
cc_wrapper_any_os(sccache_path, os) ==
  <<"cc_wrapper=" \o debug_fmt(sccache_path),
    "treat_warnings_as_errors=false">>

\* cc_wrapper(): the entries pushed for a cache tool at sccache_path
cc_wrapper(sccache_path, os) ==
  <<"cc_wrapper=" \o debug_fmt(sccache_path)>> \o
  (IF os = "windows" THEN <<"treat_warnings_as_errors=false">> ELSE <<>>)

\* mutant: the search path is preferred to the SCCACHE variable
sccache_choice_path_first(sccache, on_path) ==
  IF on_path THEN Some(PathSccache) ELSE sccache

\* the cache tool build_v8 settles on: SCCACHE first, then which("sccache")
sccache_choice(sccache, on_path) ==
  IF is_some(sccache) THEN sccache
  ELSE IF on_path THEN Some(PathSccache) ELSE None

Sccache ==
  /\ pc = "sccache"
  /\ \E sccache \in {None, Some(UserSccache)}, on_path \in BOOLEAN :
       /\ loc' = [loc EXCEPT !.SCCACHE = sccache,
                             !.sccache_on_path = on_path]
       /\ LET p == sccache_choice(sccache, on_path)
          IN  IF is_some(p)
              THEN /\ gn_args' = gn_args \o cc_wrapper(unwrap(p), target_os)
                   /\ UNCHANGED stdout
              ELSE /\ stdout' = Append(stdout, "cargo:warning=Not using sccache")
                   /\ UNCHANGED gn_args
  /\ pc' = "gn_args_env"
  /\ UNCHANGED <<target_os, search_path, env0, env, fs, run, prev_acquired,
                 exit_status, launched>>

-----------------------------------------------------------------------------
(* GN_ARGS and the Build Invoker.                                          *)

\* the tokens build_v8 appends for a value of env::var("GN_ARGS")
gn_args_tokens(v) == IF is_some(v) THEN split_whitespace(unwrap(v)) ELSE <<>>

\* mutant: the tokens are put in front of the entries pushed so far
push_tokens_in_front(args, tokens) == tokens \o args

\* the loop of gn_args.push(arg) over the tokens, in their order
push_tokens(args, tokens) == args \o tokens

GnArgsEnv ==
  /\ pc = "gn_args_env"
  /\ \E v \in GnArgsValues :
       /\ loc' = [loc EXCEPT !.GN_ARGS = v]
       /\ gn_args' = push_tokens(gn_args, gn_args_tokens(v))
  /\ pc' = "maybe_gen"
  /\ UNCHANGED <<target_os, search_path, env0, env, fs, run, prev_acquired,
                 exit_status, launched, stdout>>

GenCall(args) == [program |-> "cargo_gn::maybe_gen", args |-> args]

BuildCall == [program |-> "cargo_gn::build", args |-> <<"rusty_v8">>]

\* mutant: the two post-generation assertions are left out
gen_checks_unasserted(outcome) == outcome # "failed"

\* the two assert!(..exists()) after cargo_gn::maybe_gen
gen_checks(outcome) == outcome = "ok"

\* cargo_gn::maybe_gen followed by the two post-generation assertions
MaybeGen ==
  /\ pc = "maybe_gen"
  /\ launched' = Append(launched, GenCall(gn_args))
  /\ \E outcome \in {"failed", "no_out_dir", "no_args_gn", "ok"} :
       /\ loc' = [loc EXCEPT !.gen = outcome]
       /\ IF gen_checks(outcome)
          THEN pc' = "build" /\ UNCHANGED exit_status
          ELSE Exit(PanicCode, "build_v8")
  /\ UNCHANGED <<target_os, search_path, env0, env, fs, run, prev_acquired,
                 gn_args, stdout>>

\* mutant: build_v8 returns to main although the build executor failed
build_returns_always(outcome) == TRUE

\* cargo_gn::build returns to build_v8 only when the build succeeded
build_returns(outcome) == outcome = "ok"

\* cargo_gn::build("rusty_v8", None)
Build ==
  /\ pc = "build"
  /\ launched' = Append(launched, BuildCall)
  /\ \E outcome \in {"failed", "ok"} :
       /\ loc' = [loc EXCEPT !.build = outcome]
       /\ IF build_returns(outcome)
          THEN pc' = "main_link" /\ UNCHANGED exit_status
          ELSE Exit(PanicCode, "cargo_gn::build")
  /\ UNCHANGED <<target_os, search_path, env0, env, fs, run, prev_acquired,
                 gn_args, stdout>>

-----------------------------------------------------------------------------
(* The Link Directive Emitter and the end of main.                         *)

\* mutant: the two dynamic libraries are linked on every platform
print_link_flags_dylibs_everywhere(os) ==
  <<"cargo:rustc-link-lib=static=rusty_v8",
    "cargo:rustc-link-lib=dylib=winmm",
    "cargo:rustc-link-lib=dylib=dbghelp">>

\* print_link_flags(): the lines printed on a platform
print_link_flags(os) ==
  <<"cargo:rustc-link-lib=static=rusty_v8">> \o
  (IF os = "windows"
   THEN <<"cargo:rustc-link-lib=dylib=winmm",
          "cargo:rustc-link-lib=dylib=dbghelp">>
   ELSE <<>>)

MainLink ==
  /\ pc = "main_link"
  /\ stdout' = IF should_link(loc.is_cargo_doc, loc.is_rls)
               THEN stdout \o print_link_flags(target_os)
               ELSE stdout
  /\ loc' = [loc EXCEPT !.DENO_TRYBUILD = None, !.RUSTDOCFLAGS = None,
                        !.CARGO = None]
  /\ Exit(0, "main")
  /\ UNCHANGED <<target_os, search_path, env0, env, fs, run, prev_acquired,
                 gn_args, launched>>

-----------------------------------------------------------------------------
(* A further run of the script: a fresh process, the same starting         *)
(* environment, the scratch area as the previous run left it.              *)

Restart ==
  /\ pc = "exited"
  /\ run < MaxRuns
  /\ run' = run + 1
  /\ prev_acquired' = loc.acquired
  /\ env' = env0
  /\ pc' = "main"
  /\ exit_status' = Running
  /\ loc' = InitLoc
  /\ gn_args' = <<>>
  /\ launched' = <<>>
  /\ stdout' = <<>>
  /\ UNCHANGED <<target_os, search_path, env0, fs>>

-----------------------------------------------------------------------------

Init ==
  /\ target_os \in TargetOs
  /\ search_path \in SUBSET {"gn", "ninja"}
  /\ env0 \in [ GN : {None, Some(UserGn)},
                NINJA : {None, Some(UserNinja)},
                DEPOT_TOOLS_WIN_TOOLCHAIN : {None},
                PYTHONDONTWRITEBYTECODE : {None} ]
  /\ env = env0
  /\ fs \in SUBSET ToolFiles(target_os)
  /\ run = 1
  /\ prev_acquired = FALSE
  /\ pc = "main"
  /\ exit_status = Running
  /\ loc = InitLoc
  /\ gn_args = <<>>
  /\ launched = <<>>
  /\ stdout = <<>>

Next ==
  \/ Main
  \/ BuildV8Start
  \/ AcquireSkip
  \/ AcquirePresent
  \/ AcquireDownload
  \/ IsDebug
  \/ LocateUnset
  \/ LocateProbe
  \/ UseSystemClang
  \/ ClangDownload
  \/ Sccache
  \/ GnArgsEnv
  \/ MaybeGen
  \/ Build
  \/ MainLink
  \/ Restart

Spec == Init /\ [][Next]_vars

-----------------------------------------------------------------------------
(* Properties.                                                             *)

\* an external action with this program name was attempted in this run
Attempted(program) == \E i \in DOMAIN launched : launched[i].program = program

\* the call was attempted in this run
Launched(call) == \E i \in DOMAIN launched : launched[i] = call

\* the line was printed in this run
Printed(line) == \E i \in DOMAIN stdout : stdout[i] = line

\* build_v8 was entered in this run: its first statement has taken effect
BuildV8Entered == env.DEPOT_TOOLS_WIN_TOOLCHAIN = Some("0")

\* main has just classified the environment; the raw values are recorded
JustClassified ==
  pc = "build_v8" \/ (pc = "main_link" /\ ~BuildV8Entered)

\* the values of CARGO whose file stem starts with "rls"
RlsCargo == { Some(<<"/", "usr", "bin", "rls">>),
              Some(<<"/", "usr", "bin", "rls.exe">>) }

\* C1: for every combination of the three skip signals main runs build_v8
\* if and only if all three are false, and runs print_link_flags if and
\* only if the doc-generation and language-server signals are both false,
\* whatever the compile-check signal is.
C1_Classifier ==
  /\ JustClassified =>
       /\ loc.is_trybuild = (loc.DENO_TRYBUILD # None)
       /\ loc.is_cargo_doc = (loc.RUSTDOCFLAGS # None)
       /\ loc.is_rls = (loc.CARGO \in RlsCargo)
       /\ (pc = "build_v8") =
            (~loc.is_trybuild /\ ~loc.is_cargo_doc /\ ~loc.is_rls)
  /\ pc \notin {"main", "build_v8"} =>
       BuildV8Entered =
         (~loc.is_trybuild /\ ~loc.is_cargo_doc /\ ~loc.is_rls)
  /\ Printed("cargo:rustc-link-lib=static=rusty_v8") =>
       ~loc.is_cargo_doc /\ ~loc.is_rls
  /\ (pc = "exited" /\ exit_status.at = "main") =>
       Printed("cargo:rustc-link-lib=static=rusty_v8") =
         (~loc.is_cargo_doc /\ ~loc.is_rls)

\* a compile-check-only run: no build, link directives printed
C1_Witness ==
  /\ pc = "exited"
  /\ loc.is_trybuild /\ ~loc.is_cargo_doc /\ ~loc.is_rls
  /\ ~BuildV8Entered
  /\ Printed("cargo:rustc-link-lib=static=rusty_v8")

\* C2: when the full build applies and the vendored source directory is
\* absent, the process has terminated with a nonzero status and no
\* subprocess was launched and no download made in that run.
C2_SourceMissing ==
  (BuildV8Entered /\ pc # "build_v8" /\ ~loc.libcxx_src_is_dir) =>
    /\ pc = "exited"
    /\ exit_status.code > 0
    /\ launched = <<>>

\* the run that found the vendored source tree absent
C2_Witness ==
  /\ BuildV8Entered
  /\ ~loc.libcxx_src_is_dir
  /\ pc = "exited"
  /\ exit_status = [code |-> 1, at |-> "build_v8"]

\* C3: the Toolchain Locator returns the overridden base path only when
\* the probe both launched and exited with status zero, returns absence for
\* every failing probe outcome (binary missing, launch error, non-zero
\* exit), and the process never terminates inside the locator.
C3_LocatorZeroExitOnly ==
  /\ loc.located = "some" => loc.probe = "exit_zero"
  /\ (pc # "find_clang" /\
      loc.probe \in {"missing", "launch_error", "exit_nonzero"}) =>
       loc.located = "none"
  /\ exit_status.at \notin {"is_compatible_clang_version",
                            "find_compatible_system_clang"}

\* C4: when CLANG_BASE_PATH is set and the probe fails to launch, the
\* locator returns absence, the process does not terminate in the locator
\* and clang_download is invoked next; clang_download is invoked in a run
\* only if the locator returned absence in that run.
C4_LocatorFallback ==
  /\ loc.probe \in {"missing", "launch_error"} =>
       /\ loc.CLANG_BASE_PATH # None
       /\ loc.located = "none"
       /\ exit_status.at \notin {"is_compatible_clang_version",
                                 "find_compatible_system_clang"}
       /\ (pc # "clang_branch" => Launched(FetchCall))
  /\ Launched(FetchCall) => loc.located = "none"

\* the probe failed to launch and the pipeline went on past clang_download
C4_Witness ==
  /\ loc.CLANG_BASE_PATH # None
  /\ loc.probe = "launch_error"
  /\ Launched(FetchCall)
  /\ pc = "sccache"

\* the build-graph generator is resolvable before the acquirer runs
GnResolvable ==
  \/ "gn" \in search_path
  \/ env.GN # None
  \/ gn_path(target_os) \in fs

\* the build executor is resolvable before the acquirer runs
NinjaResolvable ==
  \/ "ninja" \in search_path
  \/ env.NINJA # None
  \/ ninja_path(target_os) \in fs

\* C5: the Build-Tool Acquirer never invokes the download helper when both
\* the build-graph generator and the build executor are resolvable (on the
\* search path, or named by GN / NINJA, or present in the scratch area).
C5_NoDownloadWhenResolvable ==
  [][(pc = "acquire" /\ GnResolvable /\ NinjaResolvable) =>
       launched' = launched]_vars

\* the download helper was invoked n times in this run
HelperRuns ==
  Cardinality({i \in DOMAIN launched : launched[i] = HelperCall})

\* C6: if the Build-Tool Acquirer completed in the previous run, a further
\* run against the unchanged scratch directory, started with the same
\* environment, invokes the download helper zero times.
C6_SecondRunNoDownload ==
  (run > 1 /\ prev_acquired) => HelperRuns = 0

\* a second run that went through download_gn_ninja_binaries again
C6_Witness ==
  /\ run = 2
  /\ prev_acquired
  /\ loc.need_download
  /\ loc.acquired
  /\ HelperRuns = 0

\* C7: on the download path the helper is invoked at most once; if it did
\* not exit with status zero, or a tool is missing at its expected scratch
\* path afterwards, the process terminates and the Build Invoker is never
\* reached; otherwise GN and NINJA are bound to the two existing paths
\* before the Build Invoker runs.
C7_DownloadPath ==
  /\ HelperRuns <= 1
  /\ (loc.helper # "not_run" /\
      ~(loc.helper = "exit_zero" /\ gn_path(target_os) \in fs
                                 /\ ninja_path(target_os) \in fs)) =>
       /\ pc = "exited"
       /\ exit_status.code > 0
       /\ ~Attempted("cargo_gn::maybe_gen")
       /\ ~Attempted("cargo_gn::build")
  /\ (loc.need_download /\
      (pc \in {"maybe_gen", "build"} \/ Attempted("cargo_gn::maybe_gen"))) =>
       /\ env.GN = Some(display(gn_path(target_os)))
       /\ env.NINJA = Some(display(ninja_path(target_os)))
       /\ gn_path(target_os) \in fs
       /\ ninja_path(target_os) \in fs

\* the helper ran, succeeded, and the Build Invoker was reached
C7_Witness ==
  /\ loc.helper = "exit_zero"
  /\ HelperRuns = 1
  /\ Attempted("cargo_gn::maybe_gen")
  /\ env.GN = Some(display(gn_path(target_os)))

\* C8: if the fetch script exits non-zero (or cannot be run) or the
\* compiler directory does not exist afterwards, the process terminates
\* with a nonzero status, no clang_base_path entry for the downloaded
\* compiler is added, and the generator and the executor are never invoked.
C8_FetchFailure ==
  (loc.fetch # "not_run" /\
   ~(loc.fetch = "exit_zero" /\ loc.clang_dir_exists)) =>
    /\ pc = "exited"
    /\ exit_status.code > 0
    /\ \A i \in DOMAIN gn_args : ~starts_with(gn_args[i], "clang_base_path=")
    /\ ~Attempted("cargo_gn::maybe_gen")
    /\ ~Attempted("cargo_gn::build")

\* the fetch script exited non-zero although the directory exists
C8_Witness ==
  /\ loc.fetch = "exit_nonzero"
  /\ loc.clang_dir_exists
  /\ pc = "exited"
  /\ exit_status = [code |-> PanicCode, at |-> "clang_download"]

\* the whitespace-separated tokens of each value of GN_ARGS, in order
ExpectedTokens(v) ==
  CASE v = None -> <<>>
    [] v = Some("") -> <<>>
    [] v = Some("is_debug=true") -> <<"is_debug=true">>
    [] v = Some(" a=1\tcc_wrapper=\"x\"  is_debug=false ") ->
         <<"a=1", "cc_wrapper=\"x\"", "is_debug=false">>

\* the argument lists handed to the build-graph generator in this run
GenArgs ==
  {launched[i].args : i \in {j \in DOMAIN launched :
                               launched[j].program = "cargo_gn::maybe_gen"}}

\* a cache tool was found in this run
CacheFound == loc.SCCACHE # None \/ loc.sccache_on_path

CacheEntries ==
  {"cc_wrapper=\"/opt/bin/sccache\"", "cc_wrapper=\"/usr/bin/sccache\""}

\* C9: the BuildArgs handed to the generator are, in this order, the
\* debug/release entry, the clang_base_path entry with its compatibility
\* flags if any, the compiler-cache entries if any, and then the
\* whitespace-split tokens of GN_ARGS in their original order; nothing is
\* contributed after the first GN_ARGS token, nothing is reordered or
\* deduplicated.
C9_ArgOrder ==
  \A A \in GenArgs :
    LET T == ExpectedTokens(loc.GN_ARGS)
        n == Len(A) - Len(T)
    IN  /\ n >= 2
        /\ SubSeq(A, n + 1, Len(A)) = T
        /\ A[1] \in {"is_debug=true", "is_debug=false"}
        /\ starts_with(A[2], "clang_base_path=")
        /\ \E flags \in {<<>>, <<"treat_warnings_as_errors=false",
                                 "clang_use_chrome_plugins=false">>},
              cache \in {<<>>} \cup {<<c>> : c \in CacheEntries}
                        \cup {<<c, "treat_warnings_as_errors=false">> :
                                c \in CacheEntries} :
             SubSeq(A, 3, n) = flags \o cache
        /\ n = 1 + (IF loc.located = "some" THEN 3 ELSE 1)
                 + (IF ~CacheFound THEN 0
                    ELSE IF target_os = "windows" THEN 2 ELSE 1)

\* every kind of entry is present and GN_ARGS has several tokens
C9_Witness ==
  \E A \in GenArgs :
    /\ loc.located = "some"
    /\ CacheFound
    /\ target_os = "windows"
    /\ Len(ExpectedTokens(loc.GN_ARGS)) = 3
    /\ Len(A) = 9

\* the inputs of the Windows scenario: debug requested, no system compiler,
\* no cache tool
WindowsDebugNoCache ==
  /\ target_os = "windows"
  /\ loc.is_debug
  /\ loc.located = "none"
  /\ ~CacheFound

\* C10 as stated: the debug/release entry is is_debug=true exactly when
\* the debug profile is requested and the platform is not Windows; with no
\* system compiler, no cache tool, platform Windows and debug requested the
\* BuildArgs contain is_debug=false and no cc_wrapper entry at all.
C10_AsStated ==
  \A A \in GenArgs :
    /\ A[1] = "is_debug=true" <=> (loc.is_debug /\ target_os # "windows")
    /\ A[1] = "is_debug=false" <=> ~(loc.is_debug /\ target_os # "windows")
    /\ WindowsDebugNoCache =>
         /\ \E j \in DOMAIN A : A[j] = "is_debug=false"
         /\ \A j \in DOMAIN A : ~starts_with(A[j], "cc_wrapper")

\* C10 amended: as above, but in the Windows scenario is_debug=false is the
\* first entry and no cc_wrapper entry is contributed by the pipeline: one
\* can appear only among the GN_ARGS tokens at the end of the BuildArgs.
C10_WindowsDebugArgs ==
  \A A \in GenArgs :
    /\ A[1] = "is_debug=true" <=> (loc.is_debug /\ target_os # "windows")
    /\ A[1] = "is_debug=false" <=> ~(loc.is_debug /\ target_os # "windows")
    /\ WindowsDebugNoCache =>
         /\ A[1] = "is_debug=false"
         /\ \A j \in 1..(Len(A) - Len(ExpectedTokens(loc.GN_ARGS))) :
              ~starts_with(A[j], "cc_wrapper")

\* the Windows scenario with a cc_wrapper token coming from GN_ARGS
C10_Witness ==
  \E A \in GenArgs :
    /\ WindowsDebugNoCache
    /\ A[1] = "is_debug=false"
    /\ \E j \in DOMAIN A : starts_with(A[j], "cc_wrapper")

\* the clang_base_path step of build_v8 has just completed
ClangStepDone == pc = "sccache"

\* C11: the clang_base_path entry carries the system compiler's base path
\* if and only if the Toolchain Locator succeeded and otherwise the path
\* returned by clang_download; the flags treat_warnings_as_errors=false and
\* clang_use_chrome_plugins=false are appended right after it by this step
\* if and only if the system compiler is used.
C11_ClangEntry ==
  /\ ClangStepDone =>
       /\ Len(gn_args) >= 2
       /\ gn_args[2] = "clang_base_path=\"/opt/llvm\""
            <=> loc.located = "some"
       /\ gn_args[2] = "clang_base_path=\"/proj/target/debug/clang\""
            <=> (loc.located = "none" /\ loc.fetch = "exit_zero")
       /\ loc.located = "some" \/ loc.fetch = "exit_zero"
       /\ SubSeq(gn_args, 3, Len(gn_args)) =
            (IF loc.located = "some"
             THEN <<"treat_warnings_as_errors=false",
                    "clang_use_chrome_plugins=false">>
             ELSE <<>>)
  /\ \A A \in GenArgs :
       /\ A[2] = (IF loc.located = "some"
                  THEN "clang_base_path=\"/opt/llvm\""
                  ELSE "clang_base_path=\"/proj/target/debug/clang\"")
       /\ loc.located = "some" =>
            /\ A[3] = "treat_warnings_as_errors=false"
            /\ A[4] = "clang_use_chrome_plugins=false"

\* the system compiler is used and its two flags reach the generator
C11_Witness ==
  \E A \in GenArgs :
    /\ loc.located = "some"
    /\ A[2] = "clang_base_path=\"/opt/llvm\""
    /\ A[3] = "treat_warnings_as_errors=false"
    /\ A[4] = "clang_use_chrome_plugins=false"

\* the entries pushed before the Compiler Cache Integrator runs
BeforeCache == IF loc.located = "some" THEN 4 ELSE 2

\* C12: the Compiler Cache Integrator uses the SCCACHE path when it is set
\* and only otherwise the sccache found on the search path; when one is
\* found exactly one cc_wrapper=<path> entry is appended, followed by
\* treat_warnings_as_errors=false only on Windows; when none is found no
\* entry is appended, a warning is printed and the pipeline still reaches
\* the Build Invoker.
C12_CacheIntegrator ==
  /\ pc = "gn_args_env" =>
       /\ SubSeq(gn_args, BeforeCache + 1, Len(gn_args)) =
            (IF loc.SCCACHE # None
               THEN <<"cc_wrapper=\"/opt/bin/sccache\"">>
             ELSE IF loc.sccache_on_path
               THEN <<"cc_wrapper=\"/usr/bin/sccache\"">>
             ELSE <<>>)
            \o (IF CacheFound /\ target_os = "windows"
                THEN <<"treat_warnings_as_errors=false">> ELSE <<>>)
       /\ Printed("cargo:warning=Not using sccache") <=> ~CacheFound
  /\ (Printed("cargo:warning=Not using sccache") /\ pc = "exited") =>
       Attempted("cargo_gn::maybe_gen")
  /\ Printed("cargo:warning=Not using sccache") =>
       \A i \in 1..BeforeCache + 1 :
         i \in DOMAIN gn_args => ~starts_with(gn_args[i], "cc_wrapper=")

\* SCCACHE is set and sccache is on the search path as well
C12_Witness ==
  /\ pc = "gn_args_env"
  /\ loc.SCCACHE # None
  /\ loc.sccache_on_path
  /\ gn_args[Len(gn_args)] = "cc_wrapper=\"/opt/bin/sccache\""

\* no cache tool: the warning is printed and the generator is reached
C12_WitnessNone ==
  /\ Printed("cargo:warning=Not using sccache")
  /\ Attempted("cargo_gn::maybe_gen")

\* positions in launched of the attempts of a program
Positions(program) ==
  {i \in DOMAIN launched : launched[i].program = program}

\* C13: the build executor is invoked only after the build-graph generator
\* was asked to generate and the output directory and its args.gn exist; if
\* either is missing after generation the process aborts and the build
\* executor is never invoked in that run.
C13_BuildAfterGen ==
  /\ \A b \in Positions("cargo_gn::build") :
       /\ \E g \in Positions("cargo_gn::maybe_gen") : g < b
       /\ loc.gen = "ok"
  /\ pc = "build" => (Attempted("cargo_gn::maybe_gen") /\ loc.gen = "ok")
  /\ loc.gen \in {"no_out_dir", "no_args_gn"} =>
       /\ pc = "exited"
       /\ exit_status = [code |-> PanicCode, at |-> "build_v8"]
       /\ ~Attempted("cargo_gn::build")

\* generation left no args.gn and the run was aborted
C13_Witness ==
  /\ loc.gen = "no_args_gn"
  /\ pc = "exited"
  /\ Attempted("cargo_gn::maybe_gen")
  /\ ~Attempted("cargo_gn::build")

IsLinkDirective(line) == starts_with(line, "cargo:rustc-link-lib=")

\* the link directives printed in this run, in order
LinkLines == SelectSeq(stdout, IsLinkDirective)

\* link-directive emission ran in this run
LinkEmissionRan ==
  pc = "exited" /\ exit_status.at = "main" /\
  ~loc.is_cargo_doc /\ ~loc.is_rls

\* C14: whenever link-directive emission runs it emits exactly one
\* static-library directive for rusty_v8 on every platform, and exactly the
\* two dynamic-library directives winmm and dbghelp on Windows and on no
\* other platform; the output depends on the platform only, and the three
\* platforms differ by the two Windows-only lines.
C14_LinkDirectives ==
  /\ LinkEmissionRan => LinkLines # <<>>
  /\ LinkLines # <<>> =>
       /\ LinkLines[1] = "cargo:rustc-link-lib=static=rusty_v8"
       /\ Len(LinkLines) = (IF target_os = "windows" THEN 3 ELSE 1)
       /\ target_os = "windows" =>
            /\ LinkLines[2] = "cargo:rustc-link-lib=dylib=winmm"
            /\ LinkLines[3] = "cargo:rustc-link-lib=dylib=dbghelp"

\* emission on a platform other than Windows: the single static directive
C14_Witness ==
  /\ LinkEmissionRan
  /\ target_os = "linux"
  /\ LinkLines = <<"cargo:rustc-link-lib=static=rusty_v8">>

\* the kind of external action a call is
CallKind(call) ==
  IF call.program = "python" THEN call.args[1]
  ELSE IF call.args = <<"--version">> THEN "clang --version"
  ELSE call.program

LastLaunched == launched[Len(launched)]

\* the build-tool download helper failed or left a tool missing
HelperFailed ==
  /\ loc.helper # "not_run"
  /\ ~(loc.helper = "exit_zero" /\ gn_path(target_os) \in fs
                                /\ ninja_path(target_os) \in fs)

\* the compiler download helper failed or left no compiler directory
FetchFailed ==
  /\ loc.fetch # "not_run"
  /\ ~(loc.fetch = "exit_zero" /\ loc.clang_dir_exists)

\* C15: in every run each external action (build-tool download helper,
\* compiler version probe, compiler download helper, build-graph
\* generation, build executor) is attempted at most once; nothing is
\* attempted after a failure of a download helper, of the post-generation
\* checks or of the build executor: each of these failures ends the run.
C15_NoRetry ==
  /\ \A i, j \in DOMAIN launched :
       i # j => CallKind(launched[i]) # CallKind(launched[j])
  /\ Len(launched) <= 5
  /\ HelperFailed =>
       (pc = "exited" /\ exit_status.code > 0 /\ LastLaunched = HelperCall)
  /\ FetchFailed =>
       (pc = "exited" /\ exit_status.code > 0 /\ LastLaunched = FetchCall)
  /\ loc.gen \notin {"not_run", "ok"} =>
       (pc = "exited" /\ exit_status.code > 0 /\
        LastLaunched.program = "cargo_gn::maybe_gen")
  /\ loc.build = "failed" =>
       (pc = "exited" /\ exit_status.code > 0 /\ LastLaunched = BuildCall)

\* all five external actions were attempted, the last one failed
C15_Witness ==
  /\ Len(launched) = 5
  /\ loc.probe = "launch_error"
  /\ loc.build = "failed"
  /\ pc = "exited"

\* a fatal condition of the full build occurred in this run
Fatal ==
  \/ (BuildV8Entered /\ ~loc.libcxx_src_is_dir)
  \/ HelperFailed
  \/ FetchFailed
  \/ loc.gen \in {"failed", "no_out_dir", "no_args_gn"}
  \/ loc.build = "failed"

\* C16: in a run where the full build applies, link directives are emitted
\* only after the build executor has completed successfully; after any
\* fatal condition (vendored source missing, a download helper failing or
\* leaving an expected file missing, post-generation artifacts missing,
\* build executor failing) the process has ended with a nonzero status and
\* no link directive is emitted in that run.
C16_LinkOnlyAfterBuild ==
  /\ (BuildV8Entered /\ LinkLines # <<>>) =>
       /\ loc.build = "ok"
       /\ LastLaunched = BuildCall
       /\ exit_status = [code |-> 0, at |-> "main"]
  /\ Fatal =>
       /\ pc = "exited"
       /\ exit_status.code > 0
       /\ LinkLines = <<>>

\* a full build that succeeded and then emitted the link directives
C16_Witness ==
  /\ BuildV8Entered
  /\ loc.build = "ok"
  /\ LinkLines # <<>>
  /\ pc = "exited"

\* the scratch subdirectory of each platform, under the download directory
ExpectedToolsDir(os) ==
  CASE os = "windows" ->
         "/proj/target/debug/gn_ninja_binaries/gn_ninja_binaries/win/"
    [] os = "linux" ->
         "/proj/target/debug/gn_ninja_binaries/gn_ninja_binaries/linux64/"
    [] os = "macos" ->
         "/proj/target/debug/gn_ninja_binaries/gn_ninja_binaries/mac/"

\* the executable name of a tool on each platform
ExpectedExe(tool, os) == IF os = "windows" THEN tool \o ".exe" ELSE tool

ExpectedTool(tool, os) == ExpectedToolsDir(os) \o ExpectedExe(tool, os)

\* the files of the scratch area, as the strings handed to the OS
ScratchFiles == {display(p) : p \in fs}

BothInScratch ==
  /\ ExpectedTool("gn", target_os) \in ScratchFiles
  /\ ExpectedTool("ninja", target_os) \in ScratchFiles

\* what download_gn_ninja_binaries leaves behind when it returns
C17_Recorded ==
  (loc.need_download /\ loc.acquired) =>
    /\ env.GN = Some(ExpectedTool("gn", target_os))
    /\ env.NINJA = Some(ExpectedTool("ninja", target_os))
    /\ BothInScratch

\* the existence check that precedes the download
C17_Checked ==
  (pc = "acquire" /\ need_gn_ninja_download) =>
    (launched' # launched <=> ~BothInScratch)

\* C17: the expected path of each downloaded build tool lies under the
\* platform's subdirectory (win, linux64 or mac) of the scratch download
\* directory and ends in the tool's name, without extension on Linux and
\* macOS and with .exe on Windows; the path whose existence is checked
\* before the download is the path re-verified after it and recorded in
\* GN / NINJA.
C17_ToolPaths == []C17_Recorded /\ [][C17_Checked]_vars

\* the tools were downloaded on Windows and recorded with their .exe names
C17_Witness ==
  /\ target_os = "windows"
  /\ loc.helper = "exit_zero"
  /\ loc.acquired
  /\ env.GN =
       Some("/proj/target/debug/gn_ninja_binaries/gn_ninja_binaries/win/gn.exe")

\* the full build is skipped in this run
BuildSkipped ==
  pc # "main" /\ (loc.is_trybuild \/ loc.is_cargo_doc \/ loc.is_rls)

\* C18: in a run where the full build is skipped (compile-check-only,
\* doc-generation or language-server signal) the process launches no
\* subprocess, makes no download, does not check for the vendored source
\* tree and leaves every environment variable as it was
\* (DEPOT_TOOLS_WIN_TOOLCHAIN, PYTHONDONTWRITEBYTECODE, GN and NINJA are not
\* set); its only possible effect is the link-directive output.
C18_SkippedRunFrame ==
  BuildSkipped =>
    /\ pc \in {"main_link", "exited"}
    /\ launched = <<>>
    /\ env = env0
    /\ env.DEPOT_TOOLS_WIN_TOOLCHAIN = None
    /\ env.PYTHONDONTWRITEBYTECODE = None
    /\ ~loc.libcxx_src_is_dir
    /\ exit_status \in {Running, [code |-> 0, at |-> "main"]}
    /\ gn_args = <<>>
    /\ stdout = LinkLines
    /\ stdout # <<>> => (~loc.is_cargo_doc /\ ~loc.is_rls)

\* a language-server run that has finished, with GN set from the start
C18_Witness ==
  /\ pc = "exited"
  /\ loc.is_rls
  /\ ~loc.is_trybuild /\ ~loc.is_cargo_doc
  /\ env0.GN # None
  /\ stdout = <<>>

\* the keys the pipeline can contribute
PipelineKeys ==
  {"is_debug", "clang_base_path", "treat_warnings_as_errors",
   "clang_use_chrome_plugins", "cc_wrapper"}

\* the entry s is key=value for this key
HasKey(s, key) == starts_with(s, key \o "=")

\* the entries of A contributed by the pipeline, before the GN_ARGS tokens
PipelinePrefix(A) == SubSeq(A, 1, Len(A) - Len(ExpectedTokens(loc.GN_ARGS)))

\* positions of the entries of P with a key
WithKey(P, key) == {i \in DOMAIN P : HasKey(P[i], key)}

\* C19: in every run that reaches the build-graph generator the
\* pipeline-contributed prefix of the BuildArgs has exactly one is_debug
\* entry, at position 0, exactly one clang_base_path entry, at position 1,
\* and at most one cc_wrapper entry; the only key contributed twice is
\* treat_warnings_as_errors (=false), exactly when a system compiler is
\* used together with a cache tool on Windows.
C19_PrefixKeys ==
  \A A \in GenArgs :
    LET P == PipelinePrefix(A)
        twe == {i \in DOMAIN P : P[i] = "treat_warnings_as_errors=false"}
    IN  /\ WithKey(P, "is_debug") = {1}
        /\ WithKey(P, "clang_base_path") = {2}
        /\ Cardinality(WithKey(P, "cc_wrapper")) <= 1
        /\ \A i \in DOMAIN P : \E key \in PipelineKeys : HasKey(P[i], key)
        /\ \A key \in PipelineKeys \ {"treat_warnings_as_errors"} :
             Cardinality(WithKey(P, key)) <= 1
        /\ WithKey(P, "treat_warnings_as_errors") = twe
        /\ Cardinality(twe) <= 2
        /\ Cardinality(twe) = 2 <=>
             (loc.located = "some" /\ CacheFound /\ target_os = "windows")

\* the duplicated key: system compiler and cache tool on Windows
C19_Witness ==
  \E A \in GenArgs :
    /\ loc.located = "some" /\ CacheFound /\ target_os = "windows"
    /\ A[3] = "treat_warnings_as_errors=false"
    /\ A[6] = "treat_warnings_as_errors=false"

\* the place of an external action in the order of the stages
Rank(call) ==
  CASE CallKind(call) = "./tools/gn_ninja_binaries.py" -> 1
    [] CallKind(call) = "clang --version" -> 2
    [] CallKind(call) = "./tools/clang/scripts/update.py" -> 3
    [] CallKind(call) = "cargo_gn::maybe_gen" -> 4
    [] CallKind(call) = "cargo_gn::build" -> 5

\* what each stage leaves behind when it has completed
SourceChecked == BuildV8Entered /\ loc.libcxx_src_is_dir

LocatorDone == loc.located # "pending"

CompilerResolved ==
  /\ Len(gn_args) >= 2
  /\ HasKey(gn_args[2], "clang_base_path")
  /\ loc.located = "some" \/ (loc.located = "none" /\ loc.fetch = "exit_zero")

CacheDone == CacheFound \/ Printed("cargo:warning=Not using sccache")

\* C20: within a full-build run the stages execute in one fixed order:
\* vendored-source check, Build-Tool Acquirer, Toolchain Locator, Remote
\* Toolchain Acquirer (only on absence), Compiler Cache Integrator, GN_ARGS
\* append, build-graph generation, build executor; the acquirer has
\* finished or short-circuited before the Build Invoker starts and the
\* compiler is resolved before the BuildArgs are handed to the generator.
C20_StageOrder ==
  /\ \A i, j \in DOMAIN launched :
       i < j => Rank(launched[i]) < Rank(launched[j])
  /\ (loc.need_download \/ loc.acquired \/ launched # <<>>) => SourceChecked
  /\ (gn_args # <<>> \/ LocatorDone \/ loc.probe # "not_run") =>
       (SourceChecked /\ loc.acquired)
  /\ loc.fetch # "not_run" => (loc.located = "none" /\ ~CacheDone)
       \/ (loc.located = "none" /\ loc.fetch = "exit_zero")
  /\ CacheDone => CompilerResolved
  /\ loc.GN_ARGS # None => CacheDone
  /\ \A A \in GenArgs :
       /\ A = gn_args
       /\ loc.acquired /\ CompilerResolved /\ CacheDone
       /\ SubSeq(A, Len(A) - Len(ExpectedTokens(loc.GN_ARGS)) + 1, Len(A))
            = ExpectedTokens(loc.GN_ARGS)
  /\ Attempted("cargo_gn::build") => Attempted("cargo_gn::maybe_gen")
  /\ pc = "acquire" => (SourceChecked /\ ~loc.acquired /\ gn_args = <<>>)
  /\ pc = "is_debug" => (loc.acquired /\ gn_args = <<>>)
  /\ pc = "find_clang" => (loc.acquired /\ ~LocatorDone /\ Len(gn_args) = 1)
  /\ pc = "clang_branch" =>
       (LocatorDone /\ loc.fetch = "not_run" /\ Len(gn_args) = 1)
  /\ pc = "sccache" => (CompilerResolved /\ ~CacheDone)
  /\ pc = "gn_args_env" => (CacheDone /\ GenArgs = {})
  /\ pc = "maybe_gen" => (CacheDone /\ GenArgs = {})
  /\ pc = "build" => (GenArgs # {} /\ ~Attempted("cargo_gn::build"))

\* a run that went through every stage, the remote acquirer included
C20_Witness ==
  /\ Len(launched) = 5
  /\ loc.helper = "exit_zero"
  /\ loc.fetch = "exit_zero"
  /\ loc.GN_ARGS # None
  /\ loc.build = "ok"
  /\ pc = "exited"

====
